---- MODULE Spec2Model ----
(***************************************************************************)
(* Authentication core of ktlian-wears-backend: the in-memory RateLimiter, *)
(* the JWT codec (generateToken / verifyToken / refresh tokens), the       *)
(* session functions built on it and the login route.                      *)
(*                                                                         *)
(* The specifications of the module:                                       *)
(*   SpecRL      - one RateLimiter instance called sequentially, with its  *)
(*                 cleanup() timer and the clock (Date.now()).             *)
(*   SpecConc    - requests in flight that pass through the middleware     *)
(*                 made by createRateLimitMiddleware.                      *)
(*   Spec        - tokens, their verification and the user store.          *)
(*   SpecSession - the session functions (refresh, invalidate) and login.  *)
(*   SpecGate    - login cookies presented to requireAuth and the admin    *)
(*                 gate while users and roles change.                      *)
(*   SpecLogin   - the login and registration routes and the strict        *)
(*                 limiter.                                                *)
(*   SpecRegister, SpecDecode, SpecPassword, SpecPermission, SpecCsrf,     *)
(*   SpecOrders, SpecLogout - registration requests in flight together,    *)
(*                 the unverified token helpers, bcrypt, the permission    *)
(*                 gate, CSRFProtection, the order handlers and logout.    *)
(***************************************************************************)
EXTENDS Integers, FiniteSets, Sequences, TLC

VARIABLES
    now,        \* Date.now() as read by the RateLimiter
    config,     \* RateLimiter.config: [windowMs, maxRequests]
    store,      \* RateLimiter.store: identifier -> [count, resetTime]; absent key = not in DOMAIN
    last,       \* the last isAllowed call: [id, at, result]
    storeNC,    \* the store of a second limiter given the same calls and never cleaned up
    lastNC,     \* what that second limiter returned for the last call
    gReset,     \* per identifier: end of the window the calls are counted in
    gCalls,     \* per identifier: calls made in that window
    gGrants,    \* per identifier: calls answered allowed = true in that window
    reqs,       \* requests in flight through rateLimitMiddleware
    clock,      \* the time jsonwebtoken reads (Math.floor(Date.now() / 1000)), counted in days
    users,      \* the users table: id -> [email, password, role]; absent row = not in DOMAIN
    issued,     \* the generateToken / generateRefreshToken calls made: [kind, payload, token]
    req,        \* the request in flight: the cookie it carries ([name, token])
    out,        \* what the last entry point called on req answered
    admin,      \* the withAdminAuth call in flight: [pc, user]
    pw,         \* the hashes made ([plain, hash]) and the last verifyPassword call
    csrf,       \* CSRFProtection.tokens, the setTimeout callbacks pending, and what was
                \* generated, accepted, and timed out or cleared so far
    orders,     \* the orders table: id -> [userId, status]
    jar         \* a logout: what invalidateSession returned, where its clearSessionCookie
                \* call is, and whether the session cookie was deleted from the cookie store

rlVars == <<now, config, store, last, storeNC, lastNC, gReset, gCalls, gGrants>>
authVars == <<clock, users, issued, req, out, admin>>
extVars == <<pw, csrf, orders, jar>>
vars == <<now, config, store, last, storeNC, lastNC, gReset, gCalls, gGrants, reqs,
          clock, users, issued, req, out, admin, pw, csrf, orders, jar>>

----------------------------------------------------------------------------
(* Bounds *)

MaxNow == 4            \* the clock runs 0..MaxNow
MaxWindow == 2         \* windowMs is drawn from 1..MaxWindow
MaxLimit == 3          \* maxRequests is drawn from 1..MaxLimit
MaxCalls == 5          \* calls counted per identifier and window
NumReq == 3            \* requests in flight in SpecConc
MaxIssued == 1         \* tokens generated in Spec
LastIssueDay == 0      \* tokens are generated on the days 0..LastIssueDay

Identifiers == {"ua1", "ua2"}
Requests == 1..NumReq

----------------------------------------------------------------------------
(* RateLimiter: src/unnamed/part_001 lines 439-508 *)

RateLimitConfig == [windowMs : 1..MaxWindow, maxRequests : 1..MaxLimit]

NoResult == [allowed |-> FALSE, remaining |-> -1, resetTime |-> -1]

Remove(st, id) == [k \in (DOMAIN st) \ {id} |-> st[k]]

Put(st, id, rec) == [k \in (DOMAIN st) \cup {id} |-> IF k = id THEN rec ELSE st[k]]

\* line 464: now > record.resetTime
ExpiredAtReset(rec, t) == t >= rec.resetTime
Expired(rec, t) == t > rec.resetTime

\* line 481: count >= maxRequests
LimitReachedOffByOne(rec, cfg) == rec.count > cfg.maxRequests
LimitReached(rec, cfg) == rec.count >= cfg.maxRequests

\* lines 470-473
FreshRecord(cfg, t) == [count |-> 1, resetTime |-> t + cfg.windowMs]

\* A limiter that counts rejected calls too.
isAllowedPenalising(st, cfg, id, t) ==
    LET s1 == IF id \in DOMAIN st /\ Expired(st[id], t) THEN Remove(st, id) ELSE st
    IN  IF id \notin DOMAIN s1
        THEN [store  |-> Put(s1, id, FreshRecord(cfg, t)),
              result |-> [allowed |-> TRUE,
                          remaining |-> cfg.maxRequests - 1,
                          resetTime |-> t + cfg.windowMs]]
        ELSE LET s2 == [s1 EXCEPT ![id].count = @ + 1]
             IN  IF LimitReached(s1[id], cfg)
                 THEN [store  |-> s2,
                       result |-> [allowed |-> FALSE,
                                   remaining |-> 0,
                                   resetTime |-> s1[id].resetTime]]
                 ELSE [store  |-> s2,
                       result |-> [allowed |-> TRUE,
                                   remaining |-> cfg.maxRequests - s2[id].count,
                                   resetTime |-> s2[id].resetTime]]

\* A limiter that forgets the increment of line 491.
isAllowedNoIncrement(st, cfg, id, t) ==
    LET s1 == IF id \in DOMAIN st /\ Expired(st[id], t) THEN Remove(st, id) ELSE st
    IN  IF id \notin DOMAIN s1
        THEN [store  |-> Put(s1, id, FreshRecord(cfg, t)),
              result |-> [allowed |-> TRUE,
                          remaining |-> cfg.maxRequests - 1,
                          resetTime |-> t + cfg.windowMs]]
        ELSE IF LimitReached(s1[id], cfg)
             THEN [store  |-> s1,
                   result |-> [allowed |-> FALSE,
                               remaining |-> 0,
                               resetTime |-> s1[id].resetTime]]
             ELSE [store  |-> s1,
                   result |-> [allowed |-> TRUE,
                               remaining |-> cfg.maxRequests - s1[id].count,
                               resetTime |-> s1[id].resetTime]]

\* isAllowed(identifier) at Date.now() = t: the store it leaves and what it returns.
isAllowed(st, cfg, id, t) ==
    LET s1 == IF id \in DOMAIN st /\ Expired(st[id], t) THEN Remove(st, id) ELSE st
    IN  IF id \notin DOMAIN s1
        THEN [store  |-> Put(s1, id, FreshRecord(cfg, t)),
              result |-> [allowed |-> TRUE,
                          remaining |-> cfg.maxRequests - 1,
                          resetTime |-> t + cfg.windowMs]]
        ELSE IF LimitReached(s1[id], cfg)
             THEN [store  |-> s1,
                   result |-> [allowed |-> FALSE,
                               remaining |-> 0,
                               resetTime |-> s1[id].resetTime]]
             ELSE LET s2 == [s1 EXCEPT ![id].count = @ + 1]
                  IN  [store  |-> s2,
                       result |-> [allowed |-> TRUE,
                                   remaining |-> cfg.maxRequests - s2[id].count,
                                   resetTime |-> s2[id].resetTime]]

\* cleanup() at Date.now() = t
cleanupEager(st, t) == [k \in {j \in DOMAIN st : ~(t >= st[j].resetTime)} |-> st[k]]
cleanup(st, t) == [k \in {j \in DOMAIN st : ~(t > st[j].resetTime)} |-> st[k]]

EmptyStore == [k \in {} |-> FreshRecord([windowMs |-> 1, maxRequests |-> 1], 0)]

----------------------------------------------------------------------------
(* JWT codec: src/src/lib/auth/jwt.ts lines 1-177.  A token is the claims   *)
(* jwt.sign serialises together with the HMAC over them; the HMAC is taken *)
(* as unforgeable: a signature verifies under a secret exactly when it was *)
(* computed under that secret over those very claims.                      *)

JWT_SECRET == "process-secret"
Issuer == "ktlian-wears"
Audience == "ktlian-wears-users"
AccessDays == 7
RefreshDays == 30

UserIds == {"u1", "u2"}
EmailOf(u) == IF u = "u1" THEN "a@shop.test" ELSE "b@shop.test"
Payloads == {[userId |-> u, email |-> EmailOf(u)] : u \in UserIds}

Hmac(secret, claims) == [key |-> secret, over |-> claims]

\* jwt.sign(payload, secret, {expiresIn, issuer, audience}) at time t
jwtSign(payload, type, secret, days, iss, aud, t) ==
    LET claims == [userId |-> payload.userId, email |-> payload.email, type |-> type,
                   iat |-> t, exp |-> t + days, iss |-> iss, aud |-> aud]
    IN  [claims |-> claims, sig |-> Hmac(secret, claims)]

Malformed ==
    [claims |-> [userId |-> "none", email |-> "none", type |-> "none",
                 iat |-> 0, exp |-> 0, iss |-> "none", aud |-> "none"],
     sig |-> [key |-> "none", over |-> "none"]]

NoPayload == Malformed.claims

\* jwt.verify(token, secret, {issuer, audience}) at time t: signature, then
\* exp (expired once t >= exp), then audience, then issuer
jwtVerify(tok, secret, iss, aud, t) ==
    IF tok = Malformed \/ tok.sig # Hmac(secret, tok.claims)
    THEN [ok |-> FALSE, err |-> "JsonWebTokenError", payload |-> NoPayload]
    ELSE IF t >= tok.claims.exp
    THEN [ok |-> FALSE, err |-> "TokenExpiredError", payload |-> NoPayload]
    ELSE IF tok.claims.aud # aud \/ tok.claims.iss # iss
    THEN [ok |-> FALSE, err |-> "JsonWebTokenError", payload |-> NoPayload]
    ELSE [ok |-> TRUE, err |-> "none", payload |-> tok.claims]

\* generateToken(payload): expiresIn '7d', the fixed issuer and audience
generateTokenOtherAudience(payload, t) ==
    jwtSign(payload, "none", JWT_SECRET, AccessDays, Issuer, "ktlian-wears", t)
generateToken(payload, t) ==
    jwtSign(payload, "none", JWT_SECRET, AccessDays, Issuer, Audience, t)

\* generateRefreshToken(payload): {...payload, type: 'refresh'}, expiresIn '30d'
generateRefreshToken(payload, t) ==
    jwtSign(payload, "refresh", JWT_SECRET, RefreshDays, Issuer, Audience, t)

\* verifyToken with ignoreExpiration among the options of jwt.verify
verifyTokenIgnoreExpiration(tok, t) ==
    LET v == jwtVerify(tok, JWT_SECRET, Issuer, Audience, tok.claims.exp - 1)
    IN  IF v.ok THEN [ok |-> TRUE, payload |-> v.payload, error |-> "none"]
        ELSE [ok |-> FALSE, payload |-> NoPayload, error |-> "Invalid token"]

\* verifyToken with jwt.decode (lines 74-82) in the place of jwt.verify
verifyTokenDecodeOnly(tok, t) ==
    IF tok # Malformed /\ t < tok.claims.exp
    THEN [ok |-> TRUE, payload |-> tok.claims, error |-> "none"]
    ELSE [ok |-> FALSE, payload |-> NoPayload, error |-> "Invalid token"]

\* verifyToken(token): the decoded payload, or the Error it throws
verifyToken(tok, t) ==
    LET v == jwtVerify(tok, JWT_SECRET, Issuer, Audience, t)
    IN  IF v.ok THEN [ok |-> TRUE, payload |-> v.payload, error |-> "none"]
        ELSE IF v.err = "TokenExpiredError"
        THEN [ok |-> FALSE, payload |-> NoPayload, error |-> "Token has expired"]
        ELSE [ok |-> FALSE, payload |-> NoPayload, error |-> "Invalid token"]

\* the string 'temp-token-' + u: not a JWT, no signature
TempToken(u) ==
    [claims |-> [Malformed.claims EXCEPT !.userId = u],
     sig |-> [key |-> "temp-token-", over |-> "none"]]

\* decodeToken(token): {userId: token.replace('temp-token-', ''), email:
\* 'temp@example.com'} for every string, never null; "jwt" stands for the
\* text of a token without the prefix, which replace() returns whole
decodeToken(tok) ==
    [userId |-> IF tok.sig.key = "temp-token-" THEN tok.claims.userId ELSE "jwt",
     email |-> "temp@example.com", hasExp |-> FALSE]

\* isTokenExpired(_token): return false
isTokenExpired(tok) == FALSE

\* getTokenExpiration(token): the payload of decodeToken has no exp: null
getTokenExpiration(tok) ==
    IF ~decodeToken(tok).hasExp THEN [set |-> FALSE, exp |-> 0]
    ELSE [set |-> TRUE, exp |-> tok.claims.exp]

\* verifyRefreshToken with the throw of line 163 placed after the try block:
\* the wrong type then reaches the caller as 'Invalid refresh token'
verifyRefreshTokenThrowOutside(tok, t) ==
    LET v == jwtVerify(tok, JWT_SECRET, Issuer, Audience, t)
    IN  IF v.ok /\ v.payload.type = "refresh"
        THEN [ok |-> TRUE, payload |-> v.payload, error |-> "none"]
        ELSE IF v.ok
        THEN [ok |-> FALSE, payload |-> NoPayload, error |-> "Invalid refresh token"]
        ELSE IF v.err = "TokenExpiredError"
        THEN [ok |-> FALSE, payload |-> NoPayload, error |-> "Refresh token has expired"]
        ELSE [ok |-> FALSE, payload |-> NoPayload, error |-> "Invalid refresh token"]

\* verifyRefreshToken(token): the Error thrown for type !== 'refresh' at line
\* 163 is caught at line 167 and is neither jwt error class
verifyRefreshToken(tok, t) ==
    LET v == jwtVerify(tok, JWT_SECRET, Issuer, Audience, t)
    IN  IF v.ok /\ v.payload.type = "refresh"
        THEN [ok |-> TRUE, payload |-> v.payload, error |-> "none"]
        ELSE IF v.ok
        THEN [ok |-> FALSE, payload |-> NoPayload, error |-> "Refresh token verification failed"]
        ELSE IF v.err = "TokenExpiredError"
        THEN [ok |-> FALSE, payload |-> NoPayload, error |-> "Refresh token has expired"]
        ELSE [ok |-> FALSE, payload |-> NoPayload, error |-> "Invalid refresh token"]

----------------------------------------------------------------------------
(* The users table and its queries: src/src/lib/db/schema.ts lines 4-14,   *)
(* src/src/lib/db/migrations.ts lines 703-792                              *)

Roles == {"customer", "admin", "super_admin"}

\* A password, by what the checks read of it: its length and what each
\* regular expression of the policy finds in it.
Passwords ==
    {[text |-> "Tr0ub4dor&3!", len |-> 12, lower |-> TRUE, upper |-> TRUE, digit |-> TRUE,
      special |-> TRUE, repeated |-> FALSE, sequential |-> FALSE, head |-> "Tr0ub4dor&3!"],
     [text |-> "Passsword1!", len |-> 11, lower |-> TRUE, upper |-> TRUE, digit |-> TRUE,
      special |-> TRUE, repeated |-> TRUE, sequential |-> FALSE, head |-> "Passsword1!"],
     [text |-> "password", len |-> 8, lower |-> TRUE, upper |-> FALSE, digit |-> FALSE,
      special |-> FALSE, repeated |-> FALSE, sequential |-> FALSE, head |-> "password"]}

\* head is what bcrypt reads of a plaintext: its first 72 bytes.  Two
\* plaintexts of 80 ASCII characters with the same first 72:
LongPrefix == "Zu4!Mw8?Zu4!Mw8?Zu4!Mw8?Zu4!Mw8?Zu4!Mw8?Zu4!Mw8?Zu4!Mw8?Zu4!Mw8?Zu4!Mw8?"

LongPasswords ==
    {[text |-> LongPrefix \o "Ab1!Kd2?", len |-> 80, lower |-> TRUE, upper |-> TRUE,
      digit |-> TRUE, special |-> TRUE, repeated |-> FALSE, sequential |-> FALSE,
      head |-> LongPrefix],
     [text |-> LongPrefix \o "Xy9?Wv5!", len |-> 80, lower |-> TRUE, upper |-> TRUE,
      digit |-> TRUE, special |-> TRUE, repeated |-> FALSE, sequential |-> FALSE,
      head |-> LongPrefix]}

OtherPasswords ==
    LongPasswords \cup
    {[text |-> "ValidP@ss1", len |-> 10, lower |-> TRUE, upper |-> TRUE, digit |-> TRUE,
      special |-> TRUE, repeated |-> FALSE, sequential |-> FALSE, head |-> "ValidP@ss1"]}

PasswordOf(text) == CHOOSE p \in Passwords : p.text = text

SaltRounds == 12

\* hashPassword / verifyPassword (bcrypt.hash, bcrypt.compare): security.ts lines 196-224
hashPassword(p) == [alg |-> "bcrypt", rounds |-> SaltRounds, of |-> p.head]

verifyPassword(p, hashed) == hashed.alg = "bcrypt" /\ hashed.of = p.head

\* validatePasswordStrength(password).isValid: security.ts lines 231-281
validatePasswordStrength(p) ==
    /\ ~(p.len < 8)
    /\ ~(p.len > 128)
    /\ p.lower /\ p.upper /\ p.digit /\ p.special
    /\ ~p.repeated
    /\ ~p.sequential

\* passwordSchema of registerSchema: part_001 lines 174-181
passwordSchema(p) ==
    p.len >= 8 /\ p.len <= 128 /\ p.lower /\ p.upper /\ p.digit /\ p.special

Emails == {"a@shop.test", "b@shop.test"}

\* emailSchema: part_001 lines 163-169
emailSchema(e) == e \in Emails

NoUser == [id |-> "none", email |-> "none", role |-> "none"]

InitialUsers ==
    [u \in UserIds |-> [email |-> EmailOf(u), password |-> hashPassword(PasswordOf("Tr0ub4dor&3!")),
                        role |-> IF u = "u1" THEN "customer" ELSE "admin"]]

\* getUserById answering from the rows read when the process started
getUserByIdCached(us, id) ==
    IF id \in DOMAIN InitialUsers
    THEN [id |-> id, email |-> InitialUsers[id].email, role |-> InitialUsers[id].role]
    ELSE NoUser

getUserById(us, id) ==
    IF id \in DOMAIN us
    THEN [id |-> id, email |-> us[id].email, role |-> us[id].role]
    ELSE NoUser

\* getUserByEmail(email): the id of the row, or "none"
getUserByEmail(us, e) ==
    IF \E u \in DOMAIN us : us[u].email = e
    THEN CHOOSE u \in DOMAIN us : us[u].email = e
    ELSE "none"

\* isUserAdmin answering from the rows read when the process started
isUserAdminCached(us, id) ==
    id \in DOMAIN InitialUsers /\ InitialUsers[id].role \in {"admin", "super_admin"}

isUserAdmin(us, id) == id \in DOMAIN us /\ us[id].role \in {"admin", "super_admin"}

----------------------------------------------------------------------------
(* Sessions and gates: jwt.ts lines 179-257, admin.ts lines 14-72,         *)
(* src/unnamed/part_001 lines 8-42                                         *)

CookieNames == {"auth_token", "auth-session"}

NoRequest == [name |-> "none", token |-> Malformed]

\* request.cookies.get(name)?.value
Cookie(rq, name) == IF rq.name = name THEN [set |-> TRUE, value |-> rq.token]
                    ELSE [set |-> FALSE, value |-> Malformed]

\* what a query of the users table does: it resolves, or its promise rejects
\* (connection lost, statement timeout)
DbOutcomes == {"ok", "error"}

\* validateSession without the user lookup settled: on a rejected query the
\* user named by the token's payload is returned
validateSessionTrustPayload(tok, us, t, db) ==
    LET v == verifyToken(tok, t)
    IN  IF ~v.ok THEN NoUser
        ELSE IF db = "error"
        THEN [id |-> v.payload.userId, email |-> v.payload.email, role |-> "customer"]
        ELSE getUserById(us, v.payload.userId)

\* validateSession reading the payload with decodeToken
validateSessionDecodeToken(tok, us, t, db) ==
    IF db = "error" THEN NoUser ELSE getUserById(us, decodeToken(tok).userId)

\* validateSession(token): the user, or null (NoUser); the throw of
\* verifyToken and the rejection of getUserById end in the catch of line 253
validateSession(tok, us, t, db) ==
    LET v == verifyToken(tok, t)
    IN  IF ~v.ok THEN NoUser
        ELSE IF db = "error" THEN NoUser
        ELSE getUserById(us, v.payload.userId)

\* getUserFromToken(request): {success, userId, error}
getUserFromToken(rq, t) ==
    LET c == Cookie(rq, "auth_token")
    IN  IF ~c.set
        THEN [success |-> FALSE, userId |-> "none", error |-> "No authentication token"]
        ELSE LET v == verifyToken(c.value, t)
             IN  IF v.ok
                 THEN [success |-> TRUE, userId |-> v.payload.userId, error |-> "none"]
                 ELSE [success |-> FALSE, userId |-> "none", error |-> "Authentication error"]

\* getCurrentUser(request) of the admin module: the user, or null (NoUser);
\* the throw of verifyToken and a rejected getUserById end in the catch of line 41
getCurrentUser(rq, us, t, db) ==
    LET c == Cookie(rq, "auth_token")
    IN  IF ~c.set THEN NoUser
        ELSE LET v == verifyToken(c.value, t)
             IN  IF ~v.ok THEN NoUser
                 ELSE IF db = "error" THEN NoUser
                 ELSE getUserById(us, v.payload.userId)

\* getCurrentAdminUser going on with the user when isUserAdmin is rejected
getCurrentAdminUserFailOpen(u, us, db) ==
    IF u = NoUser THEN NoUser
    ELSE IF db = "error" THEN u
    ELSE IF isUserAdmin(us, u.id) THEN u ELSE NoUser

\* getCurrentAdminUser(request), from the user that getCurrentUser returned
\* on: the user if isUserAdmin finds an admin role, else null; a rejected
\* isUserAdmin ends in the catch of line 68 (admin.ts lines 51-72)
getCurrentAdminUser(u, us, db) ==
    IF u = NoUser THEN NoUser
    ELSE IF db = "error" THEN NoUser
    ELSE IF isUserAdmin(us, u.id) THEN u ELSE NoUser

\* the response of withAdminAuth for what getCurrentAdminUser returned: 401,
\* or what the handler answers (200 here)
withAdminAuth(adminUser) ==
    IF adminUser = NoUser
    THEN [ok |-> FALSE, user |-> NoUser, status |-> 401, error |-> "Admin authentication required"]
    ELSE [ok |-> TRUE, user |-> adminUser, status |-> 200, error |-> "none"]

\* hasAdminPermission(user, permission)
hasAdminPermission(user, permission) ==
    IF permission \in {"manage_products", "manage_users", "manage_orders", "view_analytics"}
    THEN user.role = "admin" \/ user.role = "super_admin"
    ELSE IF permission \in {"manage_admins", "system_settings"}
    THEN user.role = "super_admin"
    ELSE FALSE

\* requireAdminPermission(permission)(handler), from what getCurrentAdminUser
\* returned on: 401 from withAdminAuth, 403, or the handler run with adminUser
requireAdminPermission(permission, adminUser) ==
    LET w == withAdminAuth(adminUser)
    IN  IF ~w.ok THEN w
        ELSE IF ~(adminUser.role = "admin" \/ adminUser.role = "super_admin")
        THEN [ok |-> FALSE, user |-> NoUser, status |-> 403, error |-> "Insufficient permissions"]
        ELSE [ok |-> TRUE, user |-> adminUser, status |-> 200, error |-> "none"]

\* getAdminFromRequest(request): {success, admin, error}
getAdminFromRequest(rq, us, t, db) ==
    LET a == getCurrentAdminUser(getCurrentUser(rq, us, t, db), us, db)
    IN  IF a = NoUser
        THEN [success |-> FALSE, admin |-> NoUser, error |-> "Admin authentication required"]
        ELSE [success |-> TRUE, admin |-> a, error |-> "none"]

\* getSessionToken() of the session module: the 'auth-session' cookie, or null
SESSION_COOKIE_NAME == "auth-session"

getSessionToken(rq) == Cookie(rq, SESSION_COOKIE_NAME)

\* getCurrentUser() of the session module (jwt.ts lines 365-379)
sessionGetCurrentUser(rq, us, t, db) ==
    LET c == getSessionToken(rq)
    IN  IF ~c.set THEN NoUser ELSE validateSession(c.value, us, t, db)

\* requireAuth(): null (the route goes on) or the 401 response; the catch of
\* line 21 is never entered, getCurrentUser() throws nothing
requireAuth(rq, us, t, db) ==
    LET u == sessionGetCurrentUser(rq, us, t, db)
    IN  IF u = NoUser
        THEN [pass |-> FALSE, user |-> NoUser, status |-> 401, error |-> "Authentication required"]
        ELSE [pass |-> TRUE, user |-> u, status |-> 0, error |-> "none"]

\* createUserSession(user).token
createUserSession(user, t) == generateToken([userId |-> user.id, email |-> user.email], t)

\* refreshSession re-issuing from the claims it decodes, without validateSession
refreshSessionDecodeOnly(tok, us, t, db) ==
    IF tok = Malformed THEN [ok |-> FALSE, user |-> NoUser, token |-> Malformed]
    ELSE LET u == [id |-> tok.claims.userId, email |-> tok.claims.email, role |-> "customer"]
         IN  [ok |-> TRUE, user |-> u, token |-> createUserSession(u, t)]

\* refreshSession(token): {token} of a new session for the user that
\* validateSession returned, or null
refreshSession(tok, us, t, db) ==
    LET u == validateSession(tok, us, t, db)
    IN  IF u = NoUser THEN [ok |-> FALSE, user |-> NoUser, token |-> Malformed]
        ELSE [ok |-> TRUE, user |-> u, token |-> createUserSession(u, t)]

\* invalidateUserSessions that withdraws the user's row
invalidateUserSessionsRemovingUser(us, id) == [k \in (DOMAIN us) \ {id} |-> us[k]]

\* invalidateUserSessions(userId): returns true; the users table as it leaves it
invalidateUserSessions(us, id) == us

\* what an entry point answers: the token it returns, and for the routes the
\* client identifier of the request and the cookie the response sets; type
\* is the type claim of a verified payload and, for the admin gate, what its
\* query of the users table did
NoAnswer ==
    [op |-> "none", ok |-> FALSE, user |-> NoUser, type |-> "none", error |-> "none",
     status |-> 0, client |-> "none", cookie |-> NoRequest, token |-> Malformed]

Reply(op, ok, user, type, error, status) ==
    [op |-> op, ok |-> ok, user |-> user, type |-> type, error |-> error,
     status |-> status, client |-> "none", cookie |-> NoRequest, token |-> Malformed]

AdminAtRest == [pc |-> "idle", user |-> NoUser]

AuthAtRest ==
    /\ clock = 0
    /\ users = InitialUsers
    /\ issued = {}
    /\ req = NoRequest
    /\ out = NoAnswer
    /\ admin = AdminAtRest

\* no bcrypt call made, no CSRF token generated, one pending order of u1,
\* no logout under way
NoBcryptCall == [made |-> {}, plain |-> "none", attempt |-> "none", match |-> FALSE]
NoCsrf == [tokens |-> {}, timers |-> <<>>, made |-> {}, accepted |-> <<>>, dead |-> {},
           last |-> [op |-> "none", token |-> 0, result |-> FALSE]]
NoOrders == [o \in {"o1"} |-> [userId |-> "u1", status |-> "pending"]]
NoLogout == [returned |-> "none", clear |-> "none", deleted |-> FALSE]

ExtAtRest ==
    /\ pw = NoBcryptCall
    /\ csrf = NoCsrf
    /\ orders = NoOrders
    /\ jar = NoLogout

----------------------------------------------------------------------------
(* The windows the calls are counted in, kept apart from the store: a      *)
(* window of an identifier opens with the first call made when none is     *)
(* open and closes once now > its reset time.                              *)

WindowOpen(id, t) == gCalls[id] > 0 /\ ~(t > gReset[id])

CountCall(id, t, allowed) ==
    IF WindowOpen(id, t)
    THEN /\ gReset' = gReset
         /\ gCalls' = [gCalls EXCEPT ![id] = @ + 1]
         /\ gGrants' = [gGrants EXCEPT ![id] = @ + (IF allowed THEN 1 ELSE 0)]
    ELSE /\ gReset' = [gReset EXCEPT ![id] = t + config.windowMs]
         /\ gCalls' = [gCalls EXCEPT ![id] = 1]
         /\ gGrants' = [gGrants EXCEPT ![id] = IF allowed THEN 1 ELSE 0]

CallsLeft(id, t) == ~WindowOpen(id, t) \/ gCalls[id] < MaxCalls

----------------------------------------------------------------------------
(* SpecRL: sequential calls on one limiter *)

NoCall == [id |-> "none", at |-> -1, result |-> NoResult]

InitRL ==
    /\ now = 0
    /\ config \in RateLimitConfig
    /\ store = EmptyStore
    /\ storeNC = EmptyStore
    /\ last = NoCall
    /\ lastNC = NoResult
    /\ gReset = [id \in Identifiers |-> 0]
    /\ gCalls = [id \in Identifiers |-> 0]
    /\ gGrants = [id \in Identifiers |-> 0]
    /\ reqs = [r \in Requests |-> [pc |-> "idle", id |-> "none", seen |-> -1, win |-> -1]]
    /\ AuthAtRest
    /\ ExtAtRest

IsAllowed(id) ==
    /\ CallsLeft(id, now)
    /\ LET r == isAllowed(store, config, id, now)
           rNC == isAllowed(storeNC, config, id, now)
       IN  /\ store' = r.store
           /\ last' = [id |-> id, at |-> now, result |-> r.result]
           /\ storeNC' = rNC.store
           /\ lastNC' = rNC.result
           /\ CountCall(id, now, r.result.allowed)
    /\ UNCHANGED <<now, config, reqs, extVars>>
    /\ UNCHANGED authVars

\* the setInterval callback of lines 543-546 (for one limiter)
Cleanup ==
    /\ store' = cleanup(store, now)
    /\ UNCHANGED <<now, config, last, storeNC, lastNC, gReset, gCalls, gGrants, reqs, extVars>>
    /\ UNCHANGED authVars

Tick ==
    /\ now < MaxNow
    /\ now' = now + 1
    /\ UNCHANGED <<config, store, last, storeNC, lastNC, gReset, gCalls, gGrants, reqs, extVars>>
    /\ UNCHANGED authVars

NextRL ==
    \/ \E id \in Identifiers : IsAllowed(id)
    \/ Cleanup
    \/ Tick

SpecRL == InitRL /\ [][NextRL]_vars

----------------------------------------------------------------------------
(* SpecConc: requests in flight. A route handler is an async function; the *)
(* middleware returned by createRateLimitMiddleware (lines 522-532) is     *)
(* synchronous, so between a request's arrival and its call any other      *)
(* request may run, and the call itself is one step.                       *)

IdleRequest == [pc |-> "idle", id |-> "none", seen |-> -1, win |-> -1]

\* the count the call compares with maxRequests (0 when it starts a record)
CountSeen(st, id, t) ==
    IF id \in DOMAIN st /\ ~Expired(st[id], t) THEN st[id].count ELSE 0

InitConc ==
    /\ InitRL

Arrive(r, id) ==
    /\ reqs[r].pc = "idle"
    /\ reqs' = [reqs EXCEPT ![r] = [pc |-> "pending", id |-> id, seen |-> -1, win |-> -1]]
    /\ UNCHANGED extVars
    /\ UNCHANGED rlVars
    /\ UNCHANGED authVars

\* rateLimitMiddleware(identifier): isAllowed, then throw when not allowed
RateLimitMiddleware(r) ==
    /\ reqs[r].pc = "pending"
    /\ LET id == reqs[r].id
           res == isAllowed(store, config, id, now)
       IN  /\ store' = res.store
           /\ CountCall(id, now, res.result.allowed)
           /\ reqs' = [reqs EXCEPT ![r] =
                         [pc   |-> IF res.result.allowed THEN "passed" ELSE "thrown",
                          id   |-> id,
                          seen |-> CountSeen(store, id, now),
                          win  |-> gReset'[id]]]
    /\ UNCHANGED <<now, config, last, storeNC, lastNC>>
    /\ UNCHANGED authVars
    /\ UNCHANGED extVars

NextConc ==
    \/ \E r \in Requests, id \in Identifiers : Arrive(r, id)
    \/ \E r \in Requests : RateLimitMiddleware(r)
    \/ Tick

SpecConc == InitConc /\ [][NextConc]_vars

----------------------------------------------------------------------------
(* Spec: tokens, sessions and gates *)

IssuedTokens == {e.token : e \in issued}

\* what a client can make of a token it holds without the secret: the claims
\* rewritten, the signature kept
Tampered(tok) ==
    {[tok EXCEPT !.claims.userId = u] : u \in UserIds \ {tok.claims.userId}}
        \cup {[tok EXCEPT !.claims.exp = @ + RefreshDays]}

\* tokens minted elsewhere: under another secret, or under this secret for
\* another issuer or audience
Foreign ==
    LET p == [userId |-> "u2", email |-> EmailOf("u2")]
    IN  {jwtSign(p, "none", "other-secret", AccessDays, Issuer, Audience, 0),
         jwtSign(p, "none", JWT_SECRET, AccessDays, "other-issuer", Audience, 0),
         jwtSign(p, "none", JWT_SECRET, AccessDays, Issuer, "other-audience", 0)}

Presentable ==
    IssuedTokens \cup UNION {Tampered(tok) : tok \in IssuedTokens} \cup Foreign \cup {Malformed}

Init ==
    /\ AuthAtRest
    /\ ExtAtRest
    /\ now = 0
    /\ config = [windowMs |-> 1, maxRequests |-> 1]
    /\ store = EmptyStore
    /\ storeNC = EmptyStore
    /\ last = NoCall
    /\ lastNC = NoResult
    /\ gReset = [id \in Identifiers |-> 0]
    /\ gCalls = [id \in Identifiers |-> 0]
    /\ gGrants = [id \in Identifiers |-> 0]
    /\ reqs = [r \in Requests |-> IdleRequest]

GenerateToken(p) ==
    /\ Cardinality(issued) < MaxIssued
    /\ clock <= LastIssueDay
    /\ issued' = issued \cup {[kind |-> "access", payload |-> p, token |-> generateToken(p, clock)]}
    /\ UNCHANGED <<clock, users, req, out, admin>>
    /\ UNCHANGED <<rlVars, reqs, extVars>>

GenerateRefreshToken(p) ==
    /\ Cardinality(issued) < MaxIssued
    /\ clock <= LastIssueDay
    /\ issued' = issued \cup {[kind |-> "refresh", payload |-> p,
                               token |-> generateRefreshToken(p, clock)]}
    /\ UNCHANGED <<clock, users, req, out, admin>>
    /\ UNCHANGED <<rlVars, reqs, extVars>>

\* a request comes in with one cookie
Present(name, tok) ==
    /\ admin.pc = "idle"
    /\ req' = [name |-> name, token |-> tok]
    /\ out' = NoAnswer
    /\ UNCHANGED <<clock, users, issued, admin>>
    /\ UNCHANGED <<rlVars, reqs, extVars>>

Answer(a) ==
    /\ req # NoRequest
    /\ admin.pc = "idle"
    /\ out' = a
    /\ UNCHANGED <<clock, users, issued, req, admin>>
    /\ UNCHANGED <<rlVars, reqs, extVars>>

VerifyToken ==
    LET v == verifyToken(req.token, clock)
    IN  Answer(Reply("verifyToken", v.ok,
                     [id |-> v.payload.userId, email |-> v.payload.email, role |-> "none"],
                     v.payload.type, v.error, 0))

VerifyRefreshToken ==
    LET v == verifyRefreshToken(req.token, clock)
    IN  Answer(Reply("verifyRefreshToken", v.ok,
                     [id |-> v.payload.userId, email |-> v.payload.email, role |-> "none"],
                     v.payload.type, v.error, 0))

\* validateSession(token) while the users table does db; the answer notes
\* a rejected query as "store error"
ValidateSession(db) ==
    LET u == validateSession(req.token, users, clock, db)
    IN  Answer(Reply("validateSession", u # NoUser, u, "none",
                     IF db = "error" THEN "store error" ELSE "none", 0))

RequireAuth(db) ==
    LET r == requireAuth(req, users, clock, db)
    IN  Answer(Reply("requireAuth", r.pass, r.user, "none", r.error, r.status))

\* refreshSession(token) with the token of the request
RefreshSession(db) ==
    LET r == refreshSession(req.token, users, clock, db)
    IN  Answer([Reply("refreshSession", r.ok, r.user, "none",
                      IF db = "error" THEN "store error" ELSE "none", 0)
                EXCEPT !.token = r.token])

\* invalidateSession(token): returns true (the clearSessionCookie call it
\* starts is followed in SpecLogout)
InvalidateSession ==
    Answer(Reply("invalidateSession", TRUE, NoUser, "none", "none", 0))

InvalidateUserSessions(u) ==
    /\ req # NoRequest
    /\ admin.pc = "idle"
    /\ users' = invalidateUserSessions(users, u)
    /\ out' = Reply("invalidateUserSessions", TRUE, NoUser, "none", "none", 0)
    /\ UNCHANGED <<clock, issued, req, admin>>
    /\ UNCHANGED <<rlVars, reqs, extVars>>

CleanupExpiredSessions ==
    Answer(Reply("cleanupExpiredSessions", TRUE, NoUser, "none", "none", 0))

GetUserFromToken ==
    LET r == getUserFromToken(req, clock)
    IN  Answer(Reply("getUserFromToken", r.success,
                     [id |-> r.userId, email |-> "none", role |-> "none"],
                     "none", r.error, 0))

GetCurrentUser(db) ==
    LET u == getCurrentUser(req, users, clock, db)
    IN  Answer(Reply("getCurrentUser", u # NoUser, u, "none", "none", 0))

\* withAdminAuth, up to the await of getUserById inside getCurrentUser while
\* the users table does db: with no user, getCurrentAdminUser returns null
\* and the gate answers
AdminFetch(db) ==
    /\ req # NoRequest
    /\ admin.pc = "idle"
    /\ LET u == getCurrentUser(req, users, clock, db)
           r == withAdminAuth(getCurrentAdminUser(u, users, db))
       IN  IF u = NoUser
           THEN /\ out' = Reply("withAdminAuth", r.ok, r.user, db, r.error, r.status)
                /\ admin' = admin
           ELSE /\ out' = NoAnswer
                /\ admin' = [pc |-> "roleCheck", user |-> u]
    /\ UNCHANGED <<clock, users, issued, req>>
    /\ UNCHANGED <<rlVars, reqs, extVars>>

\* withAdminAuth, from the await of isUserAdmin on: 401, or the handler
\* called with the user fetched before
AdminRoleCheck(db) ==
    /\ admin.pc = "roleCheck"
    /\ LET r == withAdminAuth(getCurrentAdminUser(admin.user, users, db))
       IN  out' = Reply("withAdminAuth", r.ok, r.user, db, r.error, r.status)
    /\ admin' = AdminAtRest
    /\ UNCHANGED <<clock, users, issued, req>>
    /\ UNCHANGED <<rlVars, reqs, extVars>>

\* getAdminFromRequest(request)
GetAdminFromRequest(db) ==
    LET r == getAdminFromRequest(req, users, clock, db)
    IN  Answer(Reply("getAdminFromRequest", r.success, r.admin, "none", r.error, 0))

DeleteUser(u) ==
    /\ u \in DOMAIN users
    /\ users' = [k \in (DOMAIN users) \ {u} |-> users[k]]
    /\ UNCHANGED <<clock, issued, req, out, admin>>
    /\ UNCHANGED <<rlVars, reqs, extVars>>

\* updateUserRole(userId, role)
UpdateUserRole(u, role) ==
    /\ u \in DOMAIN users
    /\ users[u].role # role
    /\ users' = [users EXCEPT ![u].role = role]
    /\ UNCHANGED <<clock, issued, req, out, admin>>
    /\ UNCHANGED <<rlVars, reqs, extVars>>

\* The login route: migrations.ts lines 818-891

\* the response of a route to the request of client c
Response(op, c, status, error, user, cookie) ==
    [op |-> op, ok |-> status \in {200, 201}, user |-> user, type |-> "none",
     error |-> error, status |-> status, client |-> c, cookie |-> cookie, token |-> Malformed]

SessionCookie(uid, email) ==
    [name |-> "auth-session",
     token |-> generateToken([userId |-> uid, email |-> email], clock)]

\* the login route telling an unknown email from a wrong password
loginResponseNamingUnknownEmail(c, e, p) ==
    LET uid == getUserByEmail(users, e)
    IN  IF ~emailSchema(e) \/ p.len < 1
        THEN Response("login", c, 400, "Validation failed", NoUser, NoRequest)
        ELSE IF uid = "none"
        THEN Response("login", c, 404, "User not found", NoUser, NoRequest)
        ELSE IF ~verifyPassword(p, users[uid].password)
        THEN Response("login", c, 401, "Invalid email or password", NoUser, NoRequest)
        ELSE Response("login", c, 200, "none", getUserById(users, uid),
                      SessionCookie(uid, users[uid].email))

\* the response of POST /api/auth/login to the body {email: e, password: p}
loginResponse(c, e, p) ==
    LET uid == getUserByEmail(users, e)
    IN  IF ~emailSchema(e) \/ p.len < 1
        THEN Response("login", c, 400, "Validation failed", NoUser, NoRequest)
        ELSE IF uid = "none"
        THEN Response("login", c, 401, "Invalid email or password", NoUser, NoRequest)
        ELSE IF ~verifyPassword(p, users[uid].password)
        THEN Response("login", c, 401, "Invalid email or password", NoUser, NoRequest)
        ELSE Response("login", c, 200, "none", getUserById(users, uid),
                      SessionCookie(uid, users[uid].email))

\* POST /api/auth/login: the response, the users table as
\* invalidateUserSessions leaves it, and the token createUserSession makes
LoginRoute(c, e, p) ==
    LET uid == getUserByEmail(users, e)
        passed == /\ emailSchema(e) /\ p.len >= 1
                  /\ uid # "none" /\ verifyPassword(p, users[uid].password)
    IN  /\ out' = loginResponse(c, e, p)
        /\ users' = IF passed THEN invalidateUserSessions(users, uid) ELSE users
        /\ issued' = IF passed
                     THEN issued \cup {[kind |-> "access",
                                        payload |-> [userId |-> uid, email |-> users[uid].email],
                                        token |-> SessionCookie(uid, users[uid].email).token]}
                     ELSE issued
        /\ UNCHANGED <<clock, req, admin>>

\* a login request, within the tokens and days of SpecSession and SpecGate
LoginRequest(e, p) ==
    /\ admin.pc = "idle"
    /\ clock <= LastIssueDay
    /\ LoginRoute("ua1", e, p)
    /\ Cardinality(issued') <= MaxIssued
    /\ UNCHANGED <<rlVars, reqs, extVars>>

\* Time passes: day by day while tokens are generated, then on to the day
\* before, of or after the expiry of a generated token.
Deadlines == {e.token.claims.exp + d : e \in issued, d \in {-1, 0, 1}}

TickDay(d) ==
    /\ d > clock
    /\ d \in Deadlines \/ (d = clock + 1 /\ d <= LastIssueDay)
    /\ clock' = d
    /\ UNCHANGED <<users, issued, req, out, admin>>
    /\ UNCHANGED <<rlVars, reqs, extVars>>

Next ==
    \/ \E p \in Payloads : GenerateToken(p)
    \/ \E p \in Payloads : GenerateRefreshToken(p)
    \/ \E tok \in Presentable : Present("auth_token", tok)
    \/ VerifyToken
    \/ VerifyRefreshToken
    \/ \E db \in DbOutcomes : ValidateSession(db)
    \/ GetUserFromToken
    \/ \E db \in DbOutcomes : GetCurrentUser(db)
    \/ \E db \in DbOutcomes : AdminFetch(db)
    \/ \E db \in DbOutcomes : AdminRoleCheck(db)
    \/ \E u \in UserIds : DeleteUser(u)
    \/ \E d \in Deadlines \cup {clock + 1} : TickDay(d)

Spec == Init /\ [][Next]_vars

----------------------------------------------------------------------------
(* SpecSession: the session functions of jwt.ts lines 220-409 called with  *)
(* the token of a request, next to logins, deletions and the passing days.  *)

NextSession ==
    \/ \E p \in Payloads : GenerateToken(p)
    \/ \E p \in Payloads : GenerateRefreshToken(p)
    \/ \E tok \in Presentable : Present(SESSION_COOKIE_NAME, tok)
    \/ \E db \in DbOutcomes : ValidateSession(db)
    \/ \E db \in DbOutcomes : RefreshSession(db)
    \/ InvalidateSession
    \/ \E u \in UserIds : InvalidateUserSessions(u)
    \/ CleanupExpiredSessions
    \/ \E e \in Emails \cup {"not-an-email"}, p \in Passwords : LoginRequest(e, p)
    \/ \E u \in UserIds : DeleteUser(u)
    \/ \E d \in Deadlines \cup {clock + 1} : TickDay(d)

SpecSession == Init /\ [][NextSession]_vars

----------------------------------------------------------------------------
(* SpecGate: requests that carry the cookie of a login, or another cookie,  *)
(* to requireAuth, getUserFromToken and the admin gate, while users are     *)
(* deleted and roles change.                                                *)

NextGate ==
    \/ \E e \in Emails \cup {"not-an-email"}, p \in Passwords : LoginRequest(e, p)
    \/ \E name \in CookieNames, tok \in Presentable : Present(name, tok)
    \/ \E db \in DbOutcomes : RequireAuth(db)
    \/ GetUserFromToken
    \/ \E db \in DbOutcomes : AdminFetch(db)
    \/ \E db \in DbOutcomes : AdminRoleCheck(db)
    \/ \E db \in DbOutcomes : GetAdminFromRequest(db)
    \/ \E u \in UserIds : DeleteUser(u)
    \/ \E u \in UserIds, role \in {"customer", "admin"} : UpdateUserRole(u, role)
    \/ \E d \in Deadlines \cup {clock + 1} : TickDay(d)

SpecGate == Init /\ [][NextGate]_vars

----------------------------------------------------------------------------
(* SpecLogin: the login and registration routes, with the authRateLimiter  *)
(* instance of part_001 lines 511-514 and the clock in milliseconds.       *)
(* migrations.ts lines 818-891, register/route.ts lines 7-98               *)

AuthMaxRequests == 5
AuthWindowMs == 15 * 60 * 1000
CleanupIntervalMs == 5 * 60 * 1000

authRateLimiter == [windowMs |-> AuthWindowMs, maxRequests |-> AuthMaxRequests]

\* getClientIdentifier(request) of the requests sent to the two routes
LoginClients == {"ua1"}

InitLogin ==
    /\ now = 0
    /\ config = authRateLimiter
    /\ store = EmptyStore
    /\ storeNC = EmptyStore
    /\ last = NoCall
    /\ lastNC = NoResult
    /\ gReset = [id \in Identifiers |-> 0]
    /\ gCalls = [id \in Identifiers |-> 0]
    /\ gGrants = [id \in Identifiers |-> 0]
    /\ reqs = [r \in Requests |-> IdleRequest]
    /\ clock = 0
    /\ users = [u \in {"u1"} |-> InitialUsers[u]]
    /\ issued = {}
    /\ req = NoRequest
    /\ out = NoAnswer
    /\ admin = AdminAtRest
    /\ ExtAtRest

\* the requests of a client that a window of the strict limiter would count
RequestsLeft(c) == ~WindowOpen(c, now) \/ gCalls[c] <= AuthMaxRequests

\* the login route, counted in the windows of its client
Login(c, e, p) ==
    /\ RequestsLeft(c)
    /\ LoginRoute(c, e, p)
    /\ CountCall(c, now, emailSchema(e) /\ p.len >= 1)
    /\ UNCHANGED <<now, config, store, last, storeNC, lastNC, reqs, extVars>>

\* POST /api/auth/register; the new row gets a fresh id and the default role
Register(c, e, p, newId) ==
    /\ RequestsLeft(c)
    /\ newId \notin DOMAIN users
    /\ LET valid == emailSchema(e) /\ passwordSchema(p)
           create == valid /\ getUserByEmail(users, e) = "none" /\ validatePasswordStrength(p)
           row == [email |-> e, password |-> hashPassword(p), role |-> "customer"]
       IN  /\ users' = IF create
                       THEN [k \in (DOMAIN users) \cup {newId} |->
                                IF k = newId THEN row ELSE users[k]]
                       ELSE users
           /\ out' =
                IF ~valid
                THEN Response("register", c, 400, "Validation failed", NoUser, NoRequest)
                ELSE IF getUserByEmail(users, e) # "none"
                THEN Response("register", c, 409, "User with this email already exists",
                              NoUser, NoRequest)
                ELSE IF ~validatePasswordStrength(p)
                THEN Response("register", c, 400,
                              "Password does not meet security requirements", NoUser, NoRequest)
                ELSE Response("register", c, 201, "none",
                              [id |-> newId, email |-> e, role |-> "customer"],
                              SessionCookie(newId, e))
           /\ issued' = IF create
                        THEN issued \cup {[kind |-> "access",
                                           payload |-> [userId |-> newId, email |-> e],
                                           token |-> SessionCookie(newId, e).token]}
                        ELSE issued
           /\ CountCall(c, now, valid)
    /\ UNCHANGED <<now, config, store, last, storeNC, lastNC, reqs, extVars>>
    /\ UNCHANGED <<clock, req, admin>>

\* five minutes pass and the setInterval callback of part_001 lines 543-546
\* cleans the limiter up
TickCleanup ==
    /\ now < MaxNow * CleanupIntervalMs
    /\ now' = now + CleanupIntervalMs
    /\ store' = cleanup(store, now')
    /\ UNCHANGED <<config, last, storeNC, lastNC, gReset, gCalls, gGrants, reqs, extVars>>
    /\ UNCHANGED authVars

NextLogin ==
    \/ \E c \in LoginClients, e \in Emails \cup {"not-an-email"}, p \in Passwords : Login(c, e, p)
    \/ \E c \in LoginClients, e \in Emails \cup {"not-an-email"}, p \in Passwords, newId \in UserIds :
          Register(c, e, p, newId)
    \/ TickCleanup

SpecLogin == InitLogin /\ [][NextLogin]_vars

----------------------------------------------------------------------------
(* Claims about the RateLimiter *)

\* C1: every stored record has 1 <= count <= maxRequests, and in no window
\* of an identifier are more than maxRequests calls answered allowed = true.
C1_CountWithinLimit ==
    /\ \A id \in DOMAIN store :
          1 <= store[id].count /\ store[id].count <= config.maxRequests
    /\ \A id \in Identifiers : gGrants[id] <= config.maxRequests

\* a full window in which a further call was rejected
C1_Witness ==
    \E id \in DOMAIN store :
        /\ config.maxRequests >= 2
        /\ store[id].count = config.maxRequests
        /\ gGrants[id] = config.maxRequests
        /\ gCalls[id] > gGrants[id]

\* C2: the first maxRequests calls of a window are allowed with
\* remaining = maxRequests - calls so far, every further call of the window
\* is rejected, and the first call after the window has elapsed is allowed
\* and starts a record with count = 1 and resetTime = now + windowMs.
C2_WindowBehaviour ==
    last.id # "none" =>
        LET n == gCalls[last.id] IN
        /\ n <= config.maxRequests =>
              /\ last.result.allowed
              /\ last.result.remaining = config.maxRequests - n
        /\ n > config.maxRequests => ~last.result.allowed
        /\ n = 1 =>
              /\ last.result.resetTime = last.at + config.windowMs
              /\ now = last.at =>
                    /\ last.id \in DOMAIN store
                    /\ store[last.id] = [count |-> 1, resetTime |-> now + config.windowMs]

\* a call that opens a new window after an earlier one has elapsed, while
\* the other identifier is blocked
C2_Witness ==
    /\ last.id # "none"
    /\ gCalls[last.id] = 1
    /\ last.at > config.windowMs
    /\ last.result.allowed
    /\ \E o \in Identifiers \ {last.id} : gCalls[o] > config.maxRequests

\* C3: a rejected call returns remaining = 0 and the record's resetTime and
\* leaves the whole store unchanged.
C3_RejectionIdempotent ==
    [][\A id \in Identifiers :
         (IsAllowed(id) /\ ~last'.result.allowed) =>
             /\ store' = store
             /\ id \in DOMAIN store
             /\ last'.result.remaining = 0
             /\ last'.result.resetTime = store[id].resetTime]_vars

\* a window in which two calls or more were rejected
C3_Witness ==
    /\ last.id # "none"
    /\ ~last.result.allowed
    /\ gCalls[last.id] >= config.maxRequests + 2
    /\ store[last.id].count = config.maxRequests

\* C4: among the requests in flight with one identifier, those answered
\* allowed = true in one window are at most maxRequests, and no two of them
\* saw the same count.
C4_AtomicCheckAndIncrement ==
    \A id \in Identifiers :
        LET granted == {r \in Requests : reqs[r].pc = "passed" /\ reqs[r].id = id}
        IN  /\ \A r \in granted :
                  Cardinality({q \in granted : reqs[q].win = reqs[r].win})
                      <= config.maxRequests
            /\ \A r, q \in granted :
                  (r # q /\ reqs[r].win = reqs[q].win) => reqs[r].seen # reqs[q].seen

\* two requests of one window passed, a third one took the throw
C4_Witness ==
    \E r, q, x \in Requests :
        /\ r # q
        /\ reqs[r].pc = "passed" /\ reqs[q].pc = "passed" /\ reqs[x].pc = "thrown"
        /\ reqs[r].id = reqs[q].id /\ reqs[x].id = reqs[r].id
        /\ reqs[r].win = reqs[q].win /\ reqs[x].win = reqs[r].win

\* C6: with cleanup() run at arbitrary points every call returns what a
\* limiter that is never cleaned up returns, and cleanup() removes exactly
\* the records with now > resetTime.
C6_CleanupTransparent ==
    /\ [](last.result = lastNC)
    /\ [][Cleanup =>
            store' = [k \in {j \in DOMAIN store : now <= store[j].resetTime} |-> store[k]]]_vars

\* a call answered right after cleanup() removed the other identifier's record
C6_Witness ==
    /\ last.id # "none"
    /\ last.at = now
    /\ DOMAIN store # DOMAIN storeNC
    /\ \E o \in DOMAIN storeNC : o \notin DOMAIN store /\ o # last.id

\* C5: a login or registration request that is the sixth or a later one of
\* its client identifier inside one 15-minute window of the strict limiter
\* is turned away before the user lookup, the password check or the user
\* creation.
C5_ReachedCredentials ==
    \/ out.op = "login" /\ out.status \in {200, 401}
    \/ out.op = "register" /\ out.error # "Validation failed"

C5_StrictLimiterGuardsCredentials ==
    (out.client \in Identifiers /\ gCalls[out.client] > authRateLimiter.maxRequests)
        => ~C5_ReachedCredentials

----------------------------------------------------------------------------
(* Claims about tokens and sessions *)

ValidSignature(tok) == tok # Malformed /\ tok.sig = Hmac(JWT_SECRET, tok.claims)

\* C7: before its expiry a token made by generateToken verifies under
\* verifyToken to the userId and email it was made for, and one made by
\* generateRefreshToken verifies under verifyRefreshToken to the same.
C7_TokenRoundTrip ==
    \A e \in issued :
        clock < e.token.claims.exp =>
            LET v == IF e.kind = "access" THEN verifyToken(e.token, clock)
                     ELSE verifyRefreshToken(e.token, clock)
            IN  /\ v.ok
                /\ v.payload.userId = e.payload.userId
                /\ v.payload.email = e.payload.email

\* a generated token verified, on the last day before its expiry
C7_Witness ==
    /\ out.op \in {"verifyToken", "verifyRefreshToken"}
    /\ out.ok
    /\ clock = req.token.claims.exp - 1
    /\ \E e \in issued : e.token = req.token /\ out.user.id = e.payload.userId

\* C8: once the clock has reached the expiry of a correctly signed token,
\* verifyToken, verifyRefreshToken and validateSession fail on it, in that
\* state and in every later one: the clock never runs back and a generated
\* token is never changed or withdrawn.
C8_FailsOnceExpired(tok, us, t) ==
    /\ ~verifyToken(tok, t).ok
    /\ ~verifyRefreshToken(tok, t).ok
    /\ validateSession(tok, us, t, "ok") = NoUser

C8_ExpiryTerminal ==
    /\ [](\A tok \in Presentable :
            (ValidSignature(tok) /\ clock >= tok.claims.exp) =>
                C8_FailsOnceExpired(tok, users, clock))
    /\ [][clock' >= clock /\ issued \subseteq issued']_vars

\* validateSession answered null for a generated token whose user exists
\* and was looked up:
\* users are never created here, so the user existed when it answered, and
\* the token was rejected for its expiry
C8_Witness ==
    /\ out.op = "validateSession"
    /\ ~out.ok
    /\ out.error = "none"
    /\ req.token \in IssuedTokens
    /\ clock = req.token.claims.exp
    /\ req.token.claims.userId \in DOMAIN users

\* C9: a token that is malformed, carries a signature not made with the
\* process secret over its claims, or names another issuer or audience is
\* rejected by verifyToken, and validateSession, getCurrentUser,
\* getUserFromToken and withAdminAuth resolve no user for it.
C9_Rejected(tok) ==
    \/ ~ValidSignature(tok)
    \/ tok.claims.iss # Issuer
    \/ tok.claims.aud # Audience

C9_FailsClosed ==
    /\ \A tok \in Presentable :
          C9_Rejected(tok) =>
              /\ ~verifyToken(tok, clock).ok
              /\ validateSession(tok, users, clock, "ok") = NoUser
              /\ \A name \in CookieNames :
                    /\ getCurrentUser([name |-> name, token |-> tok], users, clock, "ok") = NoUser
                    /\ ~getUserFromToken([name |-> name, token |-> tok], clock).success
    /\ C9_Rejected(req.token) =>
          /\ admin.pc = "idle"
          /\ out.op = "withAdminAuth" => ~out.ok

\* withAdminAuth answered 401 to a customer's token rewritten to name the
\* admin, presented in the cookie the gate reads
C9_Witness ==
    /\ out.op = "withAdminAuth"
    /\ out.status = 401
    /\ req.name = "auth_token"
    /\ req.token.claims.userId = "u2"
    /\ req.token.sig.over.userId = "u1"
    /\ "u2" \in DOMAIN users /\ isUserAdmin(users, "u2")
    /\ clock < req.token.claims.exp

\* C10: validateSession and the gates built on verifyToken resolve no user
\* for a refresh token made by generateRefreshToken for an existing user.
C10_SessionAcceptsAccessOnly ==
    (/\ out.op \in {"validateSession", "getCurrentUser", "getUserFromToken", "withAdminAuth"}
     /\ req.token \in IssuedTokens
     /\ req.token.claims.type = "refresh") => ~out.ok

\* C11: verifyToken and verifyRefreshToken answer every token with exactly
\* one of success, the expired error, the invalid error and (for
\* verifyRefreshToken) the wrong-kind error: a correctly signed token past
\* its expiry gets the expired error, a token with a bad signature or
\* structure the invalid error, a correctly signed unexpired token without
\* type 'refresh' the wrong-kind error from verifyRefreshToken; and two
\* tokens of different outcomes never get the same error.
C11_Outcome(tok, t) ==
    IF ~ValidSignature(tok) THEN "malformed"
    ELSE IF t >= tok.claims.exp THEN "expired"
    ELSE IF tok.claims.iss # Issuer \/ tok.claims.aud # Audience THEN "malformed"
    ELSE IF tok.claims.type # "refresh" THEN "wrongKind"
    ELSE "success"

C11_ErrorKinds ==
    /\ \A tok \in Presentable :
          LET k == C11_Outcome(tok, clock)
              v == verifyToken(tok, clock)
              r == verifyRefreshToken(tok, clock)
          IN  /\ v.ok <=> k \in {"success", "wrongKind"}
              /\ v.ok <=> v.error = "none"
              /\ k = "expired" <=> v.error = "Token has expired"
              /\ k = "malformed" <=> v.error = "Invalid token"
              /\ r.ok <=> k = "success"
              /\ r.ok <=> r.error = "none"
              /\ k = "expired" <=> r.error = "Refresh token has expired"
              /\ k = "malformed" <=> r.error = "Invalid refresh token"
              /\ k = "wrongKind" <=> r.error = "Refresh token verification failed"
    /\ \A a \in IssuedTokens \cup {Malformed}, b \in IssuedTokens :
          \A t \in {b.claims.iat, b.claims.exp} :
              C11_Outcome(a, clock) # C11_Outcome(b, t) =>
                  verifyRefreshToken(a, clock).error # verifyRefreshToken(b, t).error

\* verifyRefreshToken turned away an unexpired token made by generateToken
C11_Witness ==
    /\ out.op = "verifyRefreshToken"
    /\ out.error = "Refresh token verification failed"
    /\ \E e \in issued : e.kind = "access" /\ e.token = req.token
    /\ clock < req.token.claims.exp

\* C12: for every token and whatever the users table does, validateSession
\* returns either null or the row the table holds for the userId of the
\* verified token; it returns null whenever verifyToken throws, the query is
\* rejected or the row is absent.
C12_NullOnEveryFailure ==
    /\ \A tok \in Presentable, db \in DbOutcomes :
          LET v == verifyToken(tok, clock)
              r == validateSession(tok, users, clock, db)
          IN  /\ (~v.ok \/ db = "error") => r = NoUser
              /\ (v.ok /\ v.payload.userId \notin DOMAIN users) => r = NoUser
              /\ r # NoUser =>
                    /\ v.ok /\ db = "ok"
                    /\ v.payload.userId \in DOMAIN users
                    /\ r = [id |-> v.payload.userId,
                            email |-> users[v.payload.userId].email,
                            role |-> users[v.payload.userId].role]
    /\ (out.op = "validateSession" /\ out.error = "store error") =>
          ~out.ok /\ out.user = NoUser

\* validateSession answered null for an unexpired generated token of an
\* existing user because the query was rejected
C12_Witness ==
    /\ out.op = "validateSession"
    /\ out.error = "store error"
    /\ ~out.ok
    /\ req.token \in IssuedTokens
    /\ clock < req.token.claims.exp
    /\ req.token.claims.userId \in DOMAIN users

\* C13: for a generated token whose user is no longer in the users table,
\* validateSession, both getCurrentUser functions and requireAuth resolve no
\* user (requireAuth answers 401) although the token still verifies, and
\* every step of withAdminAuth taken for such a token answers 401 without
\* calling the handler.
C13_DeletedUserRejected ==
    /\ [](\A e \in issued :
            e.payload.userId \notin DOMAIN users =>
                \A db \in DbOutcomes, name \in CookieNames :
                    LET rq == [name |-> name, token |-> e.token]
                    IN  /\ validateSession(e.token, users, clock, db) = NoUser
                        /\ getCurrentUser(rq, users, clock, db) = NoUser
                        /\ sessionGetCurrentUser(rq, users, clock, db) = NoUser
                        /\ requireAuth(rq, users, clock, db).status = 401)
    /\ [][((\E db \in DbOutcomes : AdminFetch(db) \/ AdminRoleCheck(db))
             /\ req.token \in IssuedTokens
             /\ req.token.claims.userId \notin DOMAIN users)
            => (out'.status = 401 /\ ~out'.ok /\ admin'.pc = "idle")]_vars

\* withAdminAuth answered 401 to the unexpired generated token of the
\* deleted admin, presented in the cookie the gate reads
C13_Witness ==
    /\ out.op = "withAdminAuth"
    /\ out.status = 401
    /\ req.name = "auth_token"
    /\ \E e \in issued : e.token = req.token /\ e.payload.userId = "u2"
    /\ "u2" \notin DOMAIN users
    /\ clock < req.token.claims.exp

\* C14: refreshSession, invalidateSession, invalidateUserSessions,
\* cleanupExpiredSessions and a login leave what validateSession returns for
\* every generated token as it was; and after refreshSession(t) returned t',
\* each of t and t' validates to the user of the refresh while it is
\* unexpired and that user exists, and to null otherwise.
C14_SessionCall ==
    \/ \E db \in DbOutcomes : RefreshSession(db)
    \/ InvalidateSession
    \/ \E u \in UserIds : InvalidateUserSessions(u)
    \/ CleanupExpiredSessions
    \/ \E e \in Emails \cup {"not-an-email"}, p \in Passwords : LoginRequest(e, p)

C14_NoRevocation ==
    /\ [][C14_SessionCall =>
            /\ issued \subseteq issued'
            /\ \A tok \in IssuedTokens, db \in DbOutcomes :
                  validateSession(tok, users', clock', db) = validateSession(tok, users, clock, db)]_vars
    /\ []((out.op = "refreshSession" /\ out.ok) =>
            \A x \in {req.token, out.token} :
                validateSession(x, users, clock, "ok") =
                    IF clock < x.claims.exp THEN getUserById(users, out.user.id) ELSE NoUser)

\* the token given to refreshSession has expired, the one it returned still
\* validates to the user
C14_Witness ==
    /\ out.op = "refreshSession"
    /\ out.ok
    /\ clock >= req.token.claims.exp
    /\ clock < out.token.claims.exp
    /\ validateSession(out.token, users, clock, "ok") # NoUser

\* C15: refreshSession(t) returns a token exactly when validateSession(t)
\* returns a user at that moment; the token is an access token made at that
\* moment for the userId and email of that user; otherwise it returns null
\* and no token.
C15_RefreshIffValid ==
    [][\A db \in DbOutcomes :
         RefreshSession(db) =>
             LET u == validateSession(req.token, users, clock, db)
                 v == verifyToken(out'.token, clock)
             IN  /\ out'.ok <=> u # NoUser
                 /\ out'.ok =>
                       /\ v.ok
                       /\ v.payload.userId = u.id /\ v.payload.email = u.email
                       /\ v.payload.type # "refresh"
                       /\ v.payload.iat = clock /\ v.payload.exp = clock + AccessDays
                       /\ out'.user = u
                 /\ ~out'.ok => out'.token = Malformed
                 /\ issued' = issued]_vars

\* refreshSession returned a token younger than the one it was given, for
\* the same user
C15_Witness ==
    /\ out.op = "refreshSession"
    /\ out.ok
    /\ out.token.claims.iat > req.token.claims.iat
    /\ out.token.claims.userId = req.token.claims.userId
    /\ clock = out.token.claims.iat

----------------------------------------------------------------------------
(* Claims about the gates *)

\* C16: withAdminAuth calls its handler only in the role-check step of a
\* request whose own first step verified the token of the 'auth_token'
\* cookie and fetched its user, and only when isUserAdmin answered true for
\* that user; requireAuth lets a request pass only when the token of its
\* 'auth-session' cookie verifies and its user was fetched; a missing,
\* invalid or expired token, an absent user, a failed role check or a
\* rejected query never reaches the handler.
C16_NoFailOpen ==
    /\ [](admin.pc = "roleCheck" =>
            /\ req.name = "auth_token"
            /\ ValidSignature(req.token)
            /\ req.token.claims.iss = Issuer /\ req.token.claims.aud = Audience
            /\ admin.user # NoUser
            /\ admin.user.id = req.token.claims.userId)
    /\ [][\A db \in DbOutcomes :
            /\ (AdminFetch(db) /\ admin'.pc = "roleCheck") =>
                  /\ db = "ok"
                  /\ verifyToken(req.token, clock).ok
                  /\ req.token.claims.userId \in DOMAIN users
                  /\ admin'.user = getUserById(users, req.token.claims.userId)
            /\ (AdminFetch(db) /\ admin'.pc = "idle") => ~out'.ok
            /\ (AdminRoleCheck(db) /\ out'.ok) =>
                  /\ db = "ok"
                  /\ isUserAdmin(users, admin.user.id)
                  /\ out'.user = admin.user
            /\ (RequireAuth(db) /\ out'.ok) =>
                  /\ db = "ok"
                  /\ req.name = SESSION_COOKIE_NAME
                  /\ verifyToken(req.token, clock).ok
                  /\ req.token.claims.userId \in DOMAIN users]_vars
    /\ [][(out'.op = "withAdminAuth" /\ out'.ok /\ out' # out) =>
            \E db \in DbOutcomes : AdminRoleCheck(db)]_vars

\* withAdminAuth answered 401 to the unexpired login token of the admin
\* because a query of the users table was rejected
C16_Witness ==
    /\ out.op = "withAdminAuth"
    /\ out.status = 401
    /\ out.type = "error"
    /\ req.name = "auth_token"
    /\ req.token \in IssuedTokens
    /\ clock < req.token.claims.exp
    /\ isUserAdmin(users, req.token.claims.userId)

\* C17: the admin gate answers 401 to a request without a verifying token
\* or without its user, 403 to the verified token of an existing user who
\* is not an admin, and what the handler answers to an admin.
C17_AdminGateStatus ==
    [][/\ (AdminFetch("ok") /\ admin'.pc = "idle") => out'.status = 401
       /\ AdminRoleCheck("ok") =>
             out'.status = IF isUserAdmin(users, admin.user.id) THEN 200
                           ELSE IF admin.user.id \in DOMAIN users THEN 403
                           ELSE 401]_vars

\* C18: each of requireAuth, withAdminAuth, getAdminFromRequest and
\* getUserFromToken rejects with one status and one error text, the ones it
\* gives a malformed token in the cookie it reads, whatever the reason of
\* the rejection: no token, a malformed or expired token, a deleted user.
C18_RejectionOf(op) ==
    LET bad == [name |-> IF op = "requireAuth" THEN SESSION_COOKIE_NAME ELSE "auth_token",
                token |-> Malformed]
    IN  CASE op = "requireAuth" ->
               [status |-> requireAuth(bad, users, clock, "ok").status,
                error |-> requireAuth(bad, users, clock, "ok").error]
          [] op = "withAdminAuth" ->
               [status |-> withAdminAuth(NoUser).status, error |-> withAdminAuth(NoUser).error]
          [] op = "getAdminFromRequest" ->
               [status |-> 0, error |-> getAdminFromRequest(bad, users, clock, "ok").error]
          [] op = "getUserFromToken" ->
               [status |-> 0, error |-> getUserFromToken(bad, clock).error]

C18_UniformRejection ==
    (/\ out.op \in {"requireAuth", "withAdminAuth", "getAdminFromRequest", "getUserFromToken"}
     /\ ~out.ok)
        => [status |-> out.status, error |-> out.error] = C18_RejectionOf(out.op)

\* C19: the admin gate reads the role from the users table at every check:
\* the handler is called only for a user whose row holds an admin role at
\* the role check, and every step the gate takes for the login token of a
\* user whose row holds the role customer ends without the handler.
C19_RoleRevocationImmediate ==
    [][\A db \in DbOutcomes :
         /\ (AdminRoleCheck(db) /\ out'.ok) =>
               /\ out'.user.id \in DOMAIN users
               /\ users[out'.user.id].role \in {"admin", "super_admin"}
         /\ ((AdminFetch(db) \/ AdminRoleCheck(db) \/ GetAdminFromRequest(db))
               /\ req.token \in IssuedTokens
               /\ req.token.claims.userId \in DOMAIN users
               /\ users[req.token.claims.userId].role = "customer") => ~out'.ok]_vars

\* withAdminAuth answered 401, with the users table answering, to the
\* unexpired login token of u2, who was an admin at the login and is a
\* customer now
C19_Witness ==
    /\ out.op = "withAdminAuth"
    /\ out.status = 401
    /\ out.type = "ok"
    /\ req.name = "auth_token"
    /\ \E e \in issued : e.token = req.token /\ e.payload.userId = "u2"
    /\ clock < req.token.claims.exp
    /\ "u2" \in DOMAIN users
    /\ users["u2"].role = "customer"

\* C20: a request that carries the cookie a successful login set (the
\* 'auth-session' cookie with the login's token), while the token verifies
\* and its user exists, is resolved to that user by requireAuth, by
\* getUserFromToken and by the admin gate.
C20_OneCookieForIssueAndUse ==
    [][LET uid == req.token.claims.userId IN
       (/\ req.name = SessionCookie(uid, req.token.claims.email).name
        /\ req.token \in IssuedTokens
        /\ verifyToken(req.token, clock).ok
        /\ uid \in DOMAIN users) =>
           /\ RequireAuth("ok") => (out'.ok /\ out'.user.id = uid)
           /\ GetUserFromToken => (out'.ok /\ out'.user.id = uid)
           /\ AdminFetch("ok") => (admin'.pc = "roleCheck" /\ admin'.user.id = uid)
           /\ (GetAdminFromRequest("ok") /\ isUserAdmin(users, uid)) =>
                 (out'.ok /\ out'.user.id = uid)]_vars

----------------------------------------------------------------------------
(* The login route and what its rejections tell                             *)

\* the well-formed login bodies whose email no user has, and those whose
\* email a user has while the password does not match
C21_UnknownEmail(e, p) ==
    emailSchema(e) /\ p.len >= 1 /\ getUserByEmail(users, e) = "none"

C21_WrongPassword(e, p) ==
    /\ emailSchema(e) /\ p.len >= 1
    /\ getUserByEmail(users, e) # "none"
    /\ ~verifyPassword(p, users[getUserByEmail(users, e)].password)

\* C21: a well-formed login request is answered alike when no user has the
\* email and when the user exists but the password does not match: status
\* 401, the same body, no cookie; and no login answer with status 401 sets
\* a cookie or carries a user.
C21_LoginDoesNotRevealEmail ==
    /\ \A c \in LoginClients, e1 \in Emails, e2 \in Emails, p1 \in Passwords, p2 \in Passwords :
          (C21_UnknownEmail(e1, p1) /\ C21_WrongPassword(e2, p2)) =>
              /\ loginResponse(c, e1, p1) = loginResponse(c, e2, p2)
              /\ loginResponse(c, e1, p1).status = 401
              /\ loginResponse(c, e1, p1).cookie = NoRequest
    /\ (out.op = "login" /\ ~out.ok /\ out.status # 400) =>
          (out.status = 401 /\ out.error = "Invalid email or password"
              /\ out.cookie = NoRequest /\ out.user = NoUser)

\* a login was just rejected with 401 while an unknown email and a wrong
\* password for a known email can both be sent
C21_Witness ==
    /\ out.op = "login" /\ out.status = 401
    /\ \E e1 \in Emails, e2 \in Emails, p1 \in Passwords, p2 \in Passwords :
          C21_UnknownEmail(e1, p1) /\ C21_WrongPassword(e2, p2)

----------------------------------------------------------------------------
(* SpecRegister: registration requests in flight at the same time.  Each   *)
(* await of the handler (register/route.ts lines 7-98) is a step: the       *)
(* getUserByEmail of line 24, then the createUser of line 46, which the     *)
(* unique index on users.email (schema.ts line 6) can reject.               *)

\* id: uuid('id').primaryKey().defaultRandom(): a fresh id for the row of request r
NewRowId(r) == <<"n1", "n2", "n3", "n4", "n5", "n6">>[r]

\* createUser on a table without the unique index on email
createUserNoUniqueIndex(us, newId, row) ==
    [thrown |-> "none",
     users |-> [k \in (DOMAIN us) \cup {newId} |-> IF k = newId THEN row ELSE us[k]]]

\* createUser(userData): the insert, or the error PostgreSQL raises for the
\* unique index users_email_unique
createUser(us, newId, row) ==
    IF \E u \in DOMAIN us : us[u].email = row.email
    THEN [thrown |-> "duplicate key value violates unique constraint", users |-> us]
    ELSE [thrown |-> "none",
          users |-> [k \in (DOMAIN us) \cup {newId} |-> IF k = newId THEN row ELSE us[k]]]

\* a registration request: where it is, its body, whether a user had its
\* email when it arrived, and its response
NoRegistration ==
    [pc |-> "idle", email |-> "none", password |-> "none", existed |-> FALSE,
     status |-> 0, error |-> "none", cookie |-> NoRequest]

ValidRegistration(e, p) == emailSchema(e) /\ passwordSchema(p) /\ validatePasswordStrength(p)

InitRegister ==
    /\ now = 0
    /\ config = authRateLimiter
    /\ store = EmptyStore
    /\ storeNC = EmptyStore
    /\ last = NoCall
    /\ lastNC = NoResult
    /\ gReset = [id \in Identifiers |-> 0]
    /\ gCalls = [id \in Identifiers |-> 0]
    /\ gGrants = [id \in Identifiers |-> 0]
    /\ reqs = [r \in Requests |-> NoRegistration]
    /\ clock = 0
    /\ users = [u \in {} |-> InitialUsers["u1"]]
    /\ issued = {}
    /\ req = NoRequest
    /\ out = NoAnswer
    /\ admin = AdminAtRest
    /\ ExtAtRest

RegisterAnswer(r, status, error, cookie) ==
    reqs' = [reqs EXCEPT ![r].pc = "done", ![r].status = status, ![r].error = error,
                         ![r].cookie = cookie]

\* lines 9-42: the body is parsed, getUserByEmail is awaited and the
\* password strength is checked
RegisterReceive(r, e, p) ==
    /\ reqs[r].pc = "idle"
    /\ LET arrived == [reqs[r] EXCEPT !.email = e, !.password = p.text,
                                      !.existed = getUserByEmail(users, e) # "none"]
       IN  reqs' = [reqs EXCEPT ![r] =
              IF ~(emailSchema(e) /\ passwordSchema(p))
              THEN [arrived EXCEPT !.pc = "done", !.status = 400, !.error = "Validation failed"]
              ELSE IF getUserByEmail(users, e) # "none"
              THEN [arrived EXCEPT !.pc = "done", !.status = 409,
                                   !.error = "User with this email already exists"]
              ELSE IF ~validatePasswordStrength(p)
              THEN [arrived EXCEPT !.pc = "done", !.status = 400,
                                   !.error = "Password does not meet security requirements"]
              ELSE [arrived EXCEPT !.pc = "insert"]]
    /\ UNCHANGED rlVars
    /\ UNCHANGED authVars
    /\ UNCHANGED extVars

\* lines 44-96: hashPassword, createUser and the response, with the catch
\* that answers 409 to an error message that includes 'duplicate key'
RegisterInsert(r) ==
    /\ reqs[r].pc = "insert"
    /\ LET e == reqs[r].email
           newId == NewRowId(r)
           row == [email |-> e, password |-> hashPassword(PasswordOf(reqs[r].password)),
                   role |-> "customer"]
           ins == createUser(users, newId, row)
       IN  /\ users' = ins.users
           /\ IF ins.thrown = "none"
              THEN /\ RegisterAnswer(r, 201, "none", SessionCookie(newId, e))
                   /\ issued' = issued \cup {[kind |-> "access",
                                               payload |-> [userId |-> newId, email |-> e],
                                               token |-> SessionCookie(newId, e).token]}
              ELSE /\ RegisterAnswer(r, 409, "User with this email already exists", NoRequest)
                   /\ issued' = issued
    /\ UNCHANGED rlVars
    /\ UNCHANGED <<clock, req, out, admin>>
    /\ UNCHANGED extVars

NextRegister ==
    \/ \E r \in Requests, e \in Emails \cup {"not-an-email"}, p \in Passwords :
          RegisterReceive(r, e, p)
    \/ \E r \in Requests : RegisterInsert(r)

SpecRegister == InitRegister /\ [][NextRegister]_vars

\* the requests for email e that passed validation, and those answered
C22_RequestsFor(e) ==
    {r \in Requests : reqs[r].pc # "idle" /\ reqs[r].email = e
                        /\ ValidRegistration(e, PasswordOf(reqs[r].password))}

C22_Created(r) ==
    /\ reqs[r].status = 201
    /\ reqs[r].cookie.name = "auth-session"
    /\ NewRowId(r) \in DOMAIN users
    /\ users[NewRowId(r)].email = reqs[r].email
    /\ verifyToken(reqs[r].cookie.token, clock).ok
    /\ verifyToken(reqs[r].cookie.token, clock).payload.userId = NewRowId(r)

\* C22: whatever the interleaving of valid registration requests with the
\* same email, the users table holds at most one row per email, at most one
\* request is answered 201, a request whose email had a user when it arrived
\* is never answered 201, and once all of them are answered exactly one
\* created the user and got 201 with a token cookie and every other one got
\* 409.
C22_EmailsUnique ==
    /\ \A u \in DOMAIN users, v \in DOMAIN users : users[u].email = users[v].email => u = v
    /\ \A r \in Requests : (reqs[r].pc = "done" /\ reqs[r].existed) => reqs[r].status # 201
    /\ \A r \in Requests : reqs[r].status = 201 => C22_Created(r)
    /\ \A e \in Emails :
          /\ Cardinality({r \in C22_RequestsFor(e) : reqs[r].status = 201}) <= 1
          /\ (C22_RequestsFor(e) # {} /\ \A r \in C22_RequestsFor(e) : reqs[r].pc = "done") =>
                /\ Cardinality({r \in C22_RequestsFor(e) : reqs[r].status = 201}) = 1
                /\ \A r \in C22_RequestsFor(e) : reqs[r].status \in {201, 409}

\* two requests with the same email both passed the getUserByEmail check
\* before either inserted; one was answered 201 and the other 409
C22_Witness ==
    \E r1 \in Requests, r2 \in Requests :
        /\ r1 # r2
        /\ reqs[r1].email = reqs[r2].email
        /\ ~reqs[r1].existed /\ ~reqs[r2].existed
        /\ reqs[r1].status = 201 /\ reqs[r2].status = 409

----------------------------------------------------------------------------
(* SpecDecode: the unverified helpers decodeToken, isTokenExpired and      *)
(* getTokenExpiration (jwt.ts lines 66-125) beside the entry points that    *)
(* authorize a request.                                                     *)

TempTokens == {TempToken(u) : u \in UserIds}

DecodeToken ==
    LET d == decodeToken(req.token)
    IN  Answer(Reply("decodeToken", TRUE, [id |-> d.userId, email |-> d.email, role |-> "none"],
                     "none", "none", 0))

IsTokenExpired ==
    Answer(Reply("isTokenExpired", isTokenExpired(req.token), NoUser, "none", "none", 0))

GetTokenExpiration ==
    LET x == getTokenExpiration(req.token)
    IN  Answer(Reply("getTokenExpiration", x.set, NoUser, "none", "none", x.exp))

NextDecode ==
    \/ \E p \in Payloads : GenerateToken(p)
    \/ \E name \in CookieNames, tok \in Presentable \cup TempTokens : Present(name, tok)
    \/ DecodeToken
    \/ IsTokenExpired
    \/ GetTokenExpiration
    \/ VerifyToken
    \/ \E db \in DbOutcomes : ValidateSession(db)
    \/ \E db \in DbOutcomes : RequireAuth(db)
    \/ GetUserFromToken
    \/ \E db \in DbOutcomes : GetCurrentUser(db)
    \/ \E db \in DbOutcomes : AdminFetch(db)
    \/ \E db \in DbOutcomes : AdminRoleCheck(db)
    \/ \E d \in Deadlines \cup {clock + 1} : TickDay(d)

SpecDecode == Init /\ [][NextDecode]_vars

\* what each entry point decides for the request rq while the users table does db
C23_Decisions(rq, db) ==
    [validateSession |-> validateSession(rq.token, users, clock, db),
     sessionGetCurrentUser |-> sessionGetCurrentUser(rq, users, clock, db),
     getCurrentUser |-> getCurrentUser(rq, users, clock, db),
     getUserFromToken |-> getUserFromToken(rq, clock),
     requireAuth |-> requireAuth(rq, users, clock, db),
     withAdminAuth |-> withAdminAuth(getCurrentAdminUser(getCurrentUser(rq, users, clock, db),
                                                         users, db))]

C23_Denied(rq, db) ==
    LET d == C23_Decisions(rq, db)
    IN  /\ d.validateSession = NoUser
        /\ d.sessionGetCurrentUser = NoUser
        /\ d.getCurrentUser = NoUser
        /\ ~d.getUserFromToken.success
        /\ ~d.requireAuth.pass
        /\ ~d.withAdminAuth.ok

\* C23: the decisions of validateSession, getCurrentUser (both modules),
\* getUserFromToken, requireAuth and withAdminAuth depend on the token only
\* through the result of verifyToken: two tokens with the same result get
\* the same decisions; a token that verifyToken rejects, which decodeToken
\* nevertheless turns into a payload, is resolved to no user; and an entry
\* point that resolved a user did so for a token signed with the secret.
C23_DecodeNotOnAuthorizationPath ==
    /\ \A a \in Presentable \cup TempTokens, name \in CookieNames, db \in DbOutcomes :
          /\ ~verifyToken(a, clock).ok => C23_Denied([name |-> name, token |-> a], db)
          /\ \A b \in IssuedTokens \cup TempTokens \cup {Malformed} :
                verifyToken(a, clock) = verifyToken(b, clock) =>
                    C23_Decisions([name |-> name, token |-> a], db)
                        = C23_Decisions([name |-> name, token |-> b], db)
    /\ (out.ok /\ out.op \in {"validateSession", "getCurrentUser", "getUserFromToken",
                               "requireAuth", "withAdminAuth"}) =>
          (ValidSignature(req.token) /\ out.user.id = req.token.claims.userId)

\* 'temp-token-u2', which decodeToken turns into the payload of the admin
\* u2, was presented in the cookie the admin gate reads and answered 401
C23_Witness ==
    /\ req.token = TempToken("u2")
    /\ req.name = "auth_token"
    /\ decodeToken(req.token).userId = "u2"
    /\ isUserAdmin(users, "u2")
    /\ out.op = "withAdminAuth" /\ out.status = 401

\* C24: for every token made by generateToken, isTokenExpired is true once
\* the time is past the token's expiry and false before it, and it is true
\* whenever verifyToken rejects the token as expired.
C24_IsTokenExpiredAgrees ==
    \A e \in issued :
        e.kind = "access" =>
            /\ clock > e.token.claims.exp => isTokenExpired(e.token)
            /\ clock < e.token.claims.exp => ~isTokenExpired(e.token)
            /\ verifyToken(e.token, clock).error = "Token has expired" => isTokenExpired(e.token)

----------------------------------------------------------------------------
(* SpecPassword: hashPassword and verifyPassword (security.ts lines        *)
(* 196-224) applied to plaintexts, as the registration and login routes do  *)

MaxHashes == 2

HashPassword(p) ==
    /\ Cardinality(pw.made) < MaxHashes
    /\ pw' = [pw EXCEPT !.made = @ \cup {[plain |-> p.text, hash |-> hashPassword(p)]}]
    /\ UNCHANGED <<rlVars, reqs>>
    /\ UNCHANGED authVars
    /\ UNCHANGED <<csrf, orders, jar>>

VerifyPassword(p2, h) ==
    /\ h \in pw.made
    /\ pw' = [pw EXCEPT !.plain = h.plain, !.attempt = p2.text,
                        !.match = verifyPassword(p2, h.hash)]
    /\ UNCHANGED <<rlVars, reqs>>
    /\ UNCHANGED authVars
    /\ UNCHANGED <<csrf, orders, jar>>

NextPassword ==
    \/ \E p \in Passwords \cup OtherPasswords : HashPassword(p)
    \/ \E p2 \in Passwords \cup OtherPasswords, h \in pw.made : VerifyPassword(p2, h)

SpecPassword == Init /\ [][NextPassword]_vars

\* C25: for every plaintext p that validatePasswordStrength accepts,
\* verifyPassword(p, hashPassword(p)) is true and verifyPassword(p2,
\* hashPassword(p)) is false for every other plaintext p2, long plaintexts
\* with a long common prefix included.
C25_HashVerify ==
    (pw.attempt # "none" /\ \E p \in Passwords \cup OtherPasswords :
                                p.text = pw.plain /\ validatePasswordStrength(p)) =>
        (pw.match <=> pw.attempt = pw.plain)

----------------------------------------------------------------------------
(* The admin gate while roles change, and the permission gate               *)

\* C26: every AdminUser that getCurrentAdminUser returns, and so every
\* adminUser that withAdminAuth hands to a handler, has the role admin or
\* super_admin, also when updateUserRole runs between the getUserById and
\* the isUserAdmin of the request.
C26_AdminUserHasAdminRole ==
    (out.op = "withAdminAuth" /\ out.ok) => out.user.role \in {"admin", "super_admin"}

\* SpecPermission: handlers wrapped by requireAdminPermission, called by
\* users of every role

Permissions ==
    {"manage_products", "manage_users", "manage_orders", "view_analytics",
     "manage_admins", "system_settings", "delete_everything"}

\* a request to a handler wrapped by requireAdminPermission(permission)
RequireAdminPermission(permission, db) ==
    LET a == getCurrentAdminUser(getCurrentUser(req, users, clock, db), users, db)
        r == requireAdminPermission(permission, a)
    IN  Answer(Reply("requireAdminPermission", r.ok, r.user, permission, r.error, r.status))

NextPermission ==
    \/ \E p \in Payloads : GenerateToken(p)
    \/ \E tok \in Presentable : Present("auth_token", tok)
    \/ \E u \in UserIds, role \in Roles : UpdateUserRole(u, role)
    \/ \E permission \in Permissions, db \in DbOutcomes : RequireAdminPermission(permission, db)
    \/ \E d \in Deadlines \cup {clock + 1} : TickDay(d)

SpecPermission == Init /\ [][NextPermission]_vars

\* C27: a handler wrapped by requireAdminPermission(permission) runs only
\* for an admin user for whom hasAdminPermission(user, permission) is true;
\* an admin user without the permission gets 403.
C27_PermissionEnforced ==
    (out.op = "requireAdminPermission" /\ out.status # 401) =>
        /\ out.ok <=> hasAdminPermission(out.user, out.type)
        /\ ~out.ok => out.status = 403

----------------------------------------------------------------------------
(* SpecCsrf: the CSRFProtection class, security.ts lines 121-148.  A token  *)
(* is the string generateSecureToken(32) returns, 32 characters drawn with  *)
(* crypto.getRandomValues: each call gives a string not given before, here   *)
(* the next number.  The callbacks of setTimeout run one hour after their    *)
(* calls, so in the order of the calls.                                     *)

MaxCsrfTokens == 3

\* validateToken without the delete of line 140
csrfValidateTokenNoDelete(tokens, t) == [isValid |-> t \in tokens, tokens |-> tokens]

\* CSRFProtection.validateToken(token): the result and the set it leaves
csrfValidateToken(tokens, t) ==
    [isValid |-> t \in tokens, tokens |-> IF t \in tokens THEN tokens \ {t} ELSE tokens]

CsrfStep(c) ==
    /\ csrf' = c
    /\ UNCHANGED <<rlVars, reqs>>
    /\ UNCHANGED authVars
    /\ UNCHANGED <<pw, orders, jar>>

\* CSRFProtection.generateToken()
CsrfGenerateToken ==
    /\ Cardinality(csrf.made) < MaxCsrfTokens
    /\ LET t == Cardinality(csrf.made) + 1
       IN  CsrfStep([csrf EXCEPT !.tokens = @ \cup {t}, !.timers = Append(@, t),
                                 !.made = @ \cup {t},
                                 !.last = [op |-> "generateToken", token |-> t, result |-> TRUE]])

\* CSRFProtection.validateToken(t), for a generated token or any other string
CsrfValidateToken(t) ==
    LET v == csrfValidateToken(csrf.tokens, t)
    IN  CsrfStep([csrf EXCEPT !.tokens = v.tokens,
                              !.accepted = IF v.isValid THEN Append(@, t) ELSE @,
                              !.last = [op |-> "validateToken", token |-> t,
                                        result |-> v.isValid]])

\* CSRFProtection.cleanup()
CsrfCleanup ==
    /\ csrf.last.op # "cleanup"
    /\ CsrfStep([csrf EXCEPT !.tokens = {}, !.dead = @ \cup csrf.tokens,
                             !.last = [op |-> "cleanup", token |-> 0, result |-> TRUE]])

\* the callback of the oldest pending setTimeout runs: tokens.delete(token)
CsrfTimeout ==
    /\ csrf.timers # <<>>
    /\ LET t == Head(csrf.timers)
       IN  CsrfStep([csrf EXCEPT !.tokens = @ \ {t}, !.timers = Tail(@),
                                 !.dead = @ \cup (csrf.tokens \cap {t}),
                                 !.last = [op |-> "timeout", token |-> t, result |-> TRUE]])

NextCsrf ==
    \/ CsrfGenerateToken
    \/ \E t \in 0..MaxCsrfTokens : CsrfValidateToken(t)
    \/ CsrfCleanup
    \/ CsrfTimeout

SpecCsrf == Init /\ [][NextCsrf]_vars

C28_TimesAccepted(t) == Cardinality({i \in 1..Len(csrf.accepted) : csrf.accepted[i] = t})

\* C28: validateToken returns true at most once for each generated token;
\* it returns true exactly for a generated token that was not validated
\* before, has not timed out and did not precede a cleanup(), and false for
\* every other string; and the set holds exactly the generated tokens that
\* were neither accepted nor timed out nor cleared, so an accepted
\* validation removed its token only.
C28_SingleUse ==
    /\ \A t \in 0..MaxCsrfTokens : C28_TimesAccepted(t) <= 1
    /\ csrf.tokens = {t \in csrf.made : t \notin csrf.dead /\ C28_TimesAccepted(t) = 0}
    /\ csrf.last.op = "validateToken" =>
          LET t == csrf.last.token
          IN  IF csrf.last.result
              THEN t \in csrf.made /\ t \notin csrf.dead /\ C28_TimesAccepted(t) = 1
              ELSE t \notin csrf.made \/ t \in csrf.dead \/ C28_TimesAccepted(t) = 1

\* a token was accepted once and then refused, while another generated
\* token is still in the set
C28_Witness ==
    /\ csrf.last = [op |-> "validateToken", token |-> 1, result |-> FALSE]
    /\ C28_TimesAccepted(1) = 1
    /\ 2 \in csrf.tokens

----------------------------------------------------------------------------
(* SpecOrders: the PATCH and DELETE handlers of orders/[id]                 *)
(* (src/unnamed/part_000 lines 312-445) in flight at the same time; each    *)
(* handler reads the order, then writes it in a later step.                 *)

OrderStatuses == {"pending", "processing", "shipped", "delivered", "cancelled", "refunded"}

\* the order ids requested: the order of u1, and an id no order has
OrderIds == {"o1", "o9"}

\* the statuses a PATCH body asks for
PatchStatuses == {"processing", "shipped", "delivered"}

getOrderById(os, o) ==
    IF o \in DOMAIN os THEN [found |-> TRUE, userId |-> os[o].userId, status |-> os[o].status]
    ELSE [found |-> FALSE, userId |-> "none", status |-> "none"]

\* updateOrderStatus(orderId, status): UPDATE orders SET status WHERE id = orderId
updateOrderStatus(os, o, status) ==
    IF o \in DOMAIN os THEN [os EXCEPT ![o].status = status] ELSE os

\* a handler in flight: its method, the session's user ("none": no
\* session), the order id, the status it writes, its response, and the
\* status the order had when the handler's update ran
NoOrderRequest ==
    [pc |-> "idle", method |-> "none", user |-> "none", order |-> "none", set |-> "none",
     status |-> 0, was |-> "none"]

InitOrders ==
    /\ AuthAtRest
    /\ ExtAtRest
    /\ now = 0
    /\ config = [windowMs |-> 1, maxRequests |-> 1]
    /\ store = EmptyStore
    /\ storeNC = EmptyStore
    /\ last = NoCall
    /\ lastNC = NoResult
    /\ gReset = [id \in Identifiers |-> 0]
    /\ gCalls = [id \in Identifiers |-> 0]
    /\ gGrants = [id \in Identifiers |-> 0]
    /\ reqs = [r \in Requests |-> NoOrderRequest]

\* the handler up to its update: 401 without a session, 404, 403, and for
\* DELETE 400 unless the order read is pending
OrderRead(r, method, u, o, status) ==
    /\ reqs[r].pc = "idle"
    /\ LET existingOrder == getOrderById(orders, o)
           answer(code) == [NoOrderRequest EXCEPT !.pc = "done", !.method = method,
                                                  !.user = u, !.order = o, !.status = code]
       IN  reqs' = [reqs EXCEPT ![r] =
              IF u = "none" THEN answer(401)
              ELSE IF ~existingOrder.found THEN answer(404)
              ELSE IF existingOrder.userId # u THEN answer(403)
              ELSE IF method = "DELETE" /\ existingOrder.status # "pending" THEN answer(400)
              ELSE [NoOrderRequest EXCEPT !.pc = "update", !.method = method, !.user = u,
                                          !.order = o, !.set = status]]
    /\ UNCHANGED rlVars
    /\ UNCHANGED authVars
    /\ UNCHANGED extVars

\* PATCH: lines 312-381
OrderPatch(r, u, o, status) == OrderRead(r, "PATCH", u, o, status)

\* DELETE: lines 383-445, up to the check of line 420
OrderDelete(r, u, o) == OrderRead(r, "DELETE", u, o, "cancelled")

\* await updateOrderStatus(orderId, ...) and the 200 response
OrderUpdate(r) ==
    /\ reqs[r].pc = "update"
    /\ orders' = updateOrderStatus(orders, reqs[r].order, reqs[r].set)
    /\ reqs' = [reqs EXCEPT ![r].pc = "done", ![r].status = 200,
                            ![r].was = getOrderById(orders, reqs[r].order).status]
    /\ UNCHANGED rlVars
    /\ UNCHANGED authVars
    /\ UNCHANGED <<pw, csrf, jar>>

NextOrders ==
    \/ \E r \in Requests, u \in UserIds \cup {"none"}, o \in OrderIds, s \in PatchStatuses :
          OrderPatch(r, u, o, s)
    \/ \E r \in Requests, u \in UserIds \cup {"none"}, o \in OrderIds : OrderDelete(r, u, o)
    \/ \E r \in Requests : OrderUpdate(r)

SpecOrders == InitOrders /\ [][NextOrders]_vars

\* C29: the DELETE handler sets an order to 'cancelled' only if the order
\* belongs to the session's user and is 'pending' at the moment of the
\* update, whatever PATCH runs between the handler's read and its write.
C29_OnlyPendingCancelled ==
    \A r \in Requests :
        (reqs[r].method = "DELETE" /\ reqs[r].status = 200) =>
            /\ reqs[r].was = "pending"
            /\ orders[reqs[r].order].userId = reqs[r].user

----------------------------------------------------------------------------
(* SpecLogout: invalidateSession (jwt.ts lines 264-274) and the              *)
(* clearSessionCookie call it makes (lines 351-359), step by step.          *)

\* invalidateSession(token) runs to its return: clearSessionCookie() is
\* called without await and is suspended at its 'await cookies()'; no
\* exception can reach the catch of line 270; 'return true' resolves the
\* promise of invalidateSession
Logout ==
    /\ req # NoRequest
    /\ jar.clear # "pending"
    /\ jar' = [returned |-> "true", clear |-> "pending", deleted |-> FALSE]
    /\ out' = Reply("invalidateSession", TRUE, NoUser, "none", "none", 0)
    /\ UNCHANGED <<clock, users, issued, req, admin>>
    /\ UNCHANGED <<rlVars, reqs>>
    /\ UNCHANGED <<pw, csrf, orders>>

\* clearSessionCookie goes on after 'await cookies()': cookieStore.delete
\* deletes the cookie, or cookies() or delete throws (no request scope, a
\* read-only cookie store) and the promise nobody awaits is rejected
ClearSessionCookie(outcome) ==
    /\ jar.clear = "pending"
    /\ jar' = IF outcome = "ok"
              THEN [jar EXCEPT !.clear = "deleted", !.deleted = TRUE]
              ELSE [jar EXCEPT !.clear = "failed"]
    /\ UNCHANGED <<rlVars, reqs>>
    /\ UNCHANGED authVars
    /\ UNCHANGED <<pw, csrf, orders>>

NextLogout ==
    \/ \E e \in Emails, p \in Passwords : LoginRequest(e, p)
    \/ \E tok \in IssuedTokens \cup {Malformed} : Present(SESSION_COOKIE_NAME, tok)
    \/ \E db \in DbOutcomes : ValidateSession(db)
    \/ Logout
    \/ \E outcome \in {"ok", "error"} : ClearSessionCookie(outcome)
    \/ \E d \in Deadlines \cup {clock + 1} : TickDay(d)

SpecLogout == Init /\ [][NextLogout]_vars

\* C30: once the promise of invalidateSession is resolved the session
\* cookie has been deleted; invalidateSession returns true only if the
\* deletion succeeded, and false if clearing the cookie failed.
C30_LogoutCompletesClear ==
    /\ jar.returned = "true" => jar.deleted
    /\ jar.clear = "failed" => jar.returned = "false"

====
